---- MODULE Spec2Model ----
(***************************************************************************)
(* Model of src/main.py: the FastAPI service with POST /api/info,          *)
(* GET /api/download and GET /api/health.  Strings are sequences of        *)
(* one-character strings; an optional value (Python None or a missing      *)
(* dict key) is the empty sequence, a present value x is <<x>>.            *)
(***************************************************************************)
EXTENDS Integers, Sequences, FiniteSets, TLC

\* ------------------------------------------------------------------ bounds
MaxUrlLen == 2
MaxEntries == 2
MaxChunks == 2
MaxSeconds == 3700

\* ------------------------------------------------------------- input sets
Alphabet == {" ", "/", "a"}
Urls == UNION {[1..n -> Alphabet] : n \in 0..MaxUrlLen}
Indexes == (0 - (MaxEntries + 1))..MaxEntries
Statuses == {200, 206, 404, 500}
DurationInputs == {<<>>} \cup {<<s>> : s \in (0 - 3)..MaxSeconds}

\* --------------------------------------------------------- text utilities
Digit(k) == <<"0", "1", "2", "3", "4", "5", "6", "7", "8", "9">>[k + 1]

RECURSIVE NatStr(_)
NatStr(n) == IF n < 10 THEN <<Digit(n)>> ELSE NatStr(n \div 10) \o <<Digit(n % 10)>>

\* Python's str(int) / "{m}" in an f-string
IntStr(n) == IF n < 0 THEN <<"-">> \o NatStr(0 - n) ELSE NatStr(n)

\* Python's "{s:02d}": zero-pad to a minimum width of two
Pad02d(n) == IF n >= 0 /\ n < 10 THEN <<"0">> \o NatStr(n) ELSE IntStr(n)

_format_duration_unpadded(seconds) ==
    IF seconds = <<>> THEN <<>>
    ELSE LET m == seconds[1] \div 60
             s == seconds[1] % 60
         IN IntStr(m) \o <<":">> \o IntStr(s)

_format_duration(seconds) ==
    IF seconds = <<>> THEN <<>>
    ELSE LET m == seconds[1] \div 60
             s == seconds[1] % 60
         IN IntStr(m) \o <<":">> \o Pad02d(s)

RECURSIVE lstrip(_)
lstrip(s) == IF s # <<>> /\ Head(s) = " " THEN lstrip(Tail(s)) ELSE s

RECURSIVE rstrip(_)
rstrip(s) == IF s # <<>> /\ s[Len(s)] = " " THEN rstrip(SubSeq(s, 1, Len(s) - 1)) ELSE s

strip_left_only(s) == lstrip(s)

strip(s) == rstrip(lstrip(s))

\* urllib.parse.quote(c, safe=''): unreserved characters stay, the rest is %XX
QuoteChar(c) ==
    IF c = " " THEN <<"%", "2", "0">>
    ELSE IF c = "/" THEN <<"%", "2", "F">>
    ELSE <<c>>

RECURSIVE quote(_)
quote(s) == IF s = <<>> THEN <<>> ELSE QuoteChar(Head(s)) \o quote(Tail(s))

RECURSIVE unquote(_)
unquote(s) ==
    IF s = <<>> THEN <<>>
    ELSE IF Head(s) = "%" /\ Len(s) >= 3
         THEN (IF SubSeq(s, 2, 3) = <<"2", "0">> THEN <<" ">>
               ELSE IF SubSeq(s, 2, 3) = <<"2", "F">> THEN <<"/">>
               ELSE <<"%">>)
              \o unquote(SubSeq(s, IF SubSeq(s, 2, 3) \in {<<"2", "0">>, <<"2", "F">>} THEN 4 ELSE 2, Len(s)))
         ELSE <<Head(s)>> \o unquote(Tail(s))

\* str.replace(" ", "_")
ReplaceSpaces(s) == [i \in 1..Len(s) |-> IF s[i] = " " THEN "_" ELSE s[i]]

\* ------------------------------------------------- extraction engine data
\* One media entry as the engine reports it.  none = TRUE is a None element
\* of the entries list; title / duration / url are optional dict keys.
MkEntry(n, t, d, u) == [none |-> n, title |-> t, duration |-> d, url |-> u]

NoneEntry == MkEntry(TRUE, <<>>, <<>>, <<>>)

Entries ==
    { MkEntry(FALSE, << <<"A", " ", "B">> >>, <<65>>, << <<"c", "1">> >>),
      MkEntry(FALSE, <<>>, <<>>, << <<"c", "2">> >>),
      MkEntry(FALSE, << <<>> >>, <<0>>, <<>>),
      NoneEntry }

\* The value extract_info returns: None, a single-item dict (no "entries"
\* key) or a collection dict (with an "entries" list, possibly empty).
MkInfo(isNone, hasEntries, es, t, d, u) ==
    [isNone |-> isNone, hasEntries |-> hasEntries, entries |-> es,
     title |-> t, duration |-> d, url |-> u]

NoneInfo == MkInfo(TRUE, FALSE, <<>>, <<>>, <<>>, <<>>)

SingleInfos == { MkInfo(FALSE, FALSE, <<>>, e.title, e.duration, e.url) : e \in Entries \ {NoneEntry} }

CollectionInfos ==
    { MkInfo(FALSE, TRUE, es, <<>>, <<>>, <<>>) :
        es \in UNION {[1..n -> Entries] : n \in 0..MaxEntries} }

Infos == {NoneInfo} \cup SingleInfos \cup CollectionInfos

\* the info dict itself used where an entry is expected
AsEntry(i) == MkEntry(FALSE, i.title, i.duration, i.url)

\* ---------------------------------------------------------------- state
VARIABLES
    upstream,      \* what the extraction engine reports for the post
    pc,            \* position of the request being served
    req,           \* the request: endpoint, raw url, index, followed link
    url,           \* local variable url of the handler
    info,          \* local variable info (<<>> until extract_info returned)
    entry,         \* local variable entry of download (<<>> until selected)
    filename,      \* local variable filename of download
    response,      \* what the client has been sent
    conn,          \* upstream connection cdn_stream: none / open / released
    status,        \* cdn_stream.status_code (0: no upstream response)
    total,         \* chunks the upstream body holds
    relayed,       \* chunks relayed to the client
    extractCalls,  \* extract_info calls made by this request
    getCalls,      \* requests.get calls made by this request
    fmtIn,         \* argument of _format_duration
    fmtOut         \* result of _format_duration (<<"?">> until applied)

vars == <<upstream, pc, req, url, info, entry, filename, response, conn,
          status, total, relayed, extractCalls, getCalls, fmtIn, fmtOut>>

fmtVars == <<fmtIn, fmtOut>>

NoReq == [endpoint |-> "none", url |-> <<>>, index |-> 0, via |-> <<>>]
NoResponse == [kind |-> "none"]

\* --------------------------------------------------- POST /api/info parts
DownloadPath == <<"/", "a", "p", "i", "/", "d", "o", "w", "n", "l", "o", "a", "d", "?", "u", "r", "l", "=">>
IndexParam == <<"&", "i", "n", "d", "e", "x", "=">>
ClipPrefix == <<"C", "l", "i", "p", " ">>

\* the nested function build(entry, idx) of get_info; u is the enclosing url
build(e, idx, u) ==
    [index |-> idx,
     title |-> IF e.title = <<>> \/ e.title[1] = <<>>
               THEN ClipPrefix \o IntStr(idx + 1)
               ELSE e.title[1],
     duration |-> _format_duration(e.duration),
     download_url |-> DownloadPath \o quote(u) \o IndexParam \o IntStr(idx)]

\* "entries" in info and info["entries"]
HasNonEmptyEntries(i) == i.hasEntries /\ i.entries # <<>>

Items_no_fallback(i, u) == [k \in 1..Len(i.entries) |-> build(i.entries[k], k - 1, u)]

Items_one_based(i, u) ==
    IF HasNonEmptyEntries(i)
    THEN [k \in 1..Len(i.entries) |-> build(i.entries[k], k, u)]
    ELSE <<build(AsEntry(i), 0, u)>>

\* the items list of get_info, when building raises nothing
Items(i, u) ==
    IF HasNonEmptyEntries(i)
    THEN [k \in 1..Len(i.entries) |-> build(i.entries[k], k - 1, u)]
    ELSE <<build(AsEntry(i), 0, u)>>

\* shaping raises: `"entries" in None`, or entry.get on a None entry
ShapeRaises(i) ==
    \/ i.isNone
    \/ HasNonEmptyEntries(i) /\ \E k \in 1..Len(i.entries) : i.entries[k].none

InfoResponse(ok, message, items, input_url) ==
    [kind |-> "info", status |-> 200, ok |-> ok, message |-> message,
     items |-> items, input_url |-> input_url]

InfoFailure(u) == InfoResponse(FALSE, <<"Invalid or unsupported URL">>, <<>>, u)

InfoSuccess(i, u) == InfoResponse(TRUE, <<>>, Items(i, u), u)

\* ----------------------------------------------- GET /api/download parts
\* Python list indexing info["entries"][index] on a list of length n
PyIndexOk(n, index) == (0 - n) <= index /\ index < n
PyPos(n, index) == IF index >= 0 THEN index + 1 ELSE n + index + 1

\* entry = info["entries"][index] if "entries" in info else info
SelectRaises(i, index) ==
    IF i.isNone THEN "TypeError"
    ELSE IF i.hasEntries /\ ~PyIndexOk(Len(i.entries), index) THEN "IndexError"
    ELSE ""

SelectEntry(i, index) ==
    IF i.hasEntries THEN i.entries[PyPos(Len(i.entries), index)] ELSE AsEntry(i)

\* direct_url = entry["url"]
DirectUrlRaises(e) ==
    IF e.none THEN "TypeError" ELSE IF e.url = <<>> THEN "KeyError" ELSE ""

Filename(e) ==
    ReplaceSpaces(IF e.title = <<>> \/ e.title[1] = <<>>
                  THEN <<"i", "n", "s", "t", "a", "g", "r", "a", "m", "_", "v", "i", "d", "e", "o">>
                  ELSE e.title[1])
    \o <<".", "m", "p", "4">>

Err(type, code) == [type |-> type, code |-> code]

DownloadFailure(e) ==
    [kind |-> "failure", status |-> 400, ok |-> FALSE,
     message |-> "Download failed", error |-> e]

StreamingResponse(name, outcome) ==
    [kind |-> "stream", status |-> 200, media_type |-> "video/mp4",
     filename |-> name, outcome |-> outcome]

CdnRaises_server_errors_only(code) == code >= 500

\* if cdn_stream.status_code != 200: raise
CdnRaises(code) == code # 200

\* the query string of a download link, as the framework decodes it
DigitVal(c) == CHOOSE k \in 0..9 : Digit(k) = c

RECURSIVE ParseNat(_)
ParseNat(s) == IF s = <<>> THEN 0 ELSE 10 * ParseNat(SubSeq(s, 1, Len(s) - 1)) + DigitVal(s[Len(s)])

ParseInt(s) == IF s # <<>> /\ Head(s) = "-" THEN 0 - ParseNat(Tail(s)) ELSE ParseNat(s)

ParseQuery(link) ==
    LET rest == SubSeq(link, Len(DownloadPath) + 1, Len(link))
        amp == CHOOSE i \in 1..Len(rest) : rest[i] = "&" /\ \A j \in 1..(i - 1) : rest[j] # "&"
    IN [url |-> unquote(SubSeq(rest, 1, amp - 1)),
        index |-> ParseInt(SubSeq(rest, amp + Len(IndexParam), Len(rest)))]

\* ---------------------------------------------------------------- actions
\* no request is being served: requests are independent of one another, so
\* each is started from the state the service is constructed in
Idle == pc = "idle"

\* the locals and per-request records of a request that starts
Fresh ==
    /\ info' = <<>>
    /\ entry' = <<>>
    /\ filename' = <<>>
    /\ conn' = "none"
    /\ status' = 0
    /\ total' = 0
    /\ relayed' = 0
    /\ extractCalls' = 0
    /\ getCalls' = 0

\* POST /api/info arrives: url = payload.url.strip()
InfoRequest ==
    /\ Idle
    /\ \E u \in Urls :
        /\ req' = [endpoint |-> "info", url |-> u, index |-> 0, via |-> <<>>]
        /\ url' = strip(u)
    /\ pc' = "info_extract"
    /\ Fresh
    /\ response' = NoResponse
    /\ UNCHANGED <<upstream, fmtVars>>

\* get_info from ydl.extract_info to the returned InfoResponse
InfoExtract ==
    /\ pc = "info_extract"
    /\ extractCalls' = extractCalls + 1
    /\ \/ /\ info' = <<>>                      \* extract_info raised
          /\ response' = InfoFailure(url)
       \/ /\ info' = <<upstream>>              \* extract_info returned
          /\ response' = IF ShapeRaises(upstream)
                         THEN InfoFailure(url)
                         ELSE InfoSuccess(upstream, url)
    /\ pc' = "done"
    /\ UNCHANGED <<upstream, req, url, entry, filename, conn, status, total,
                   relayed, getCalls, fmtVars>>

\* GET /api/download arrives with a url and an index of the client's choice
DownloadRequest ==
    /\ Idle
    /\ \E u \in Urls, i \in Indexes :
        /\ req' = [endpoint |-> "download", url |-> u, index |-> i, via |-> <<>>]
        /\ url' = u
    /\ pc' = "dl_extract"
    /\ Fresh
    /\ response' = NoResponse
    /\ UNCHANGED <<upstream, fmtVars>>

\* GET /api/download arrives through the download_url of an item that the
\* preceding info response carried
FollowLink ==
    /\ pc = "done"
    /\ response.kind = "info"
    /\ \E k \in 1..Len(response.items) :
        LET q == ParseQuery(response.items[k].download_url) IN
        /\ req' = [endpoint |-> "download", url |-> q.url, index |-> q.index, via |-> <<k>>]
        /\ url' = q.url
    /\ pc' = "dl_extract"
    /\ Fresh
    /\ response' = NoResponse
    /\ UNCHANGED <<upstream, fmtVars>>

\* download from ydl.extract_info to just before requests.get
DlExtract ==
    /\ pc = "dl_extract"
    /\ extractCalls' = extractCalls + 1
    /\ \/ /\ info' = <<>>                      \* extract_info raised
          /\ entry' = <<>>
          /\ filename' = <<>>
          /\ response' = DownloadFailure(Err("DownloadError", 0))
          /\ pc' = "done"
       \/ /\ info' = <<upstream>>              \* extract_info returned
          /\ IF SelectRaises(upstream, req.index) # ""
             THEN /\ entry' = <<>>
                  /\ filename' = <<>>
                  /\ response' = DownloadFailure(Err(SelectRaises(upstream, req.index), 0))
                  /\ pc' = "done"
             ELSE LET e == SelectEntry(upstream, req.index) IN
                  /\ entry' = <<e>>
                  /\ IF DirectUrlRaises(e) # ""
                     THEN /\ filename' = <<>>
                          /\ response' = DownloadFailure(Err(DirectUrlRaises(e), 0))
                          /\ pc' = "done"
                     ELSE /\ filename' = Filename(e)
                          /\ response' = response
                          /\ pc' = "dl_get"
    /\ UNCHANGED <<upstream, req, url, conn, status, total, relayed, getCalls, fmtVars>>

DlGet_retrying ==
    /\ pc = "dl_get"
    /\ getCalls' = getCalls + 1
    /\ \/ /\ conn' = "none"
          /\ status' = 0
          /\ total' = 0
          /\ response' = response
          /\ pc' = "dl_get"
       \/ \E code \in Statuses, n \in 0..MaxChunks :
          /\ conn' = "open"
          /\ status' = code
          /\ total' = n
          /\ IF CdnRaises(code)
             THEN /\ response' = DownloadFailure(Err("CDN error", code))
                  /\ pc' = "done"
             ELSE /\ response' = StreamingResponse(filename, "streaming")
                  /\ pc' = "streaming"
    /\ UNCHANGED <<upstream, req, url, info, entry, filename, relayed, extractCalls, fmtVars>>

\* requests.get(direct_url, stream=True, timeout=20), the status check and
\* the return of the StreamingResponse
DlGet ==
    /\ pc = "dl_get"
    /\ getCalls' = getCalls + 1
    /\ \/ /\ conn' = "none"                    \* timeout or connection error
          /\ status' = 0
          /\ total' = 0
          /\ response' = DownloadFailure(Err("RequestException", 0))
          /\ pc' = "done"
       \/ \E code \in Statuses, n \in 0..MaxChunks :
          /\ conn' = "open"
          /\ status' = code
          /\ total' = n
          /\ IF CdnRaises(code)
             THEN /\ response' = DownloadFailure(Err("CDN error", code))
                  /\ pc' = "done"
             ELSE /\ response' = StreamingResponse(filename, "streaming")
                  /\ pc' = "streaming"
    /\ UNCHANGED <<upstream, req, url, info, entry, filename, relayed, extractCalls, fmtVars>>

\* the server pulls one chunk from cdn_stream.iter_content and sends it
StreamChunk ==
    /\ pc = "streaming"
    /\ relayed < total
    /\ relayed' = relayed + 1
    /\ UNCHANGED <<upstream, pc, req, url, info, entry, filename, response, conn,
                   status, total, extractCalls, getCalls, fmtVars>>

\* iter_content is exhausted: the body is complete and the HTTP client
\* releases the connection
StreamEnd ==
    /\ pc = "streaming"
    /\ relayed = total
    /\ response' = StreamingResponse(filename, "complete")
    /\ conn' = "released"
    /\ pc' = "done"
    /\ UNCHANGED <<upstream, req, url, info, entry, filename, status, total,
                   relayed, extractCalls, getCalls, fmtVars>>

\* iter_content raises while the response is being sent (upstream timeout
\* or reset): the handler's try block was left when it returned, so the
\* client keeps the 200 head and the chunks sent so far
StreamError ==
    /\ pc = "streaming"
    /\ relayed < total
    /\ response' = StreamingResponse(filename, "upstream_error")
    /\ conn' = "released"
    /\ pc' = "done"
    /\ UNCHANGED <<upstream, req, url, info, entry, filename, status, total,
                   relayed, extractCalls, getCalls, fmtVars>>

\* the client goes away while the response is being sent; nothing in
\* download closes cdn_stream
ClientDisconnect ==
    /\ pc = "streaming"
    /\ response' = StreamingResponse(filename, "client_gone")
    /\ pc' = "done"
    /\ UNCHANGED <<upstream, req, url, info, entry, filename, conn, status, total,
                   relayed, extractCalls, getCalls, fmtVars>>

\* GET /api/health
Health ==
    /\ Idle
    /\ req' = [endpoint |-> "health", url |-> <<>>, index |-> 0, via |-> <<>>]
    /\ url' = <<>>
    /\ Fresh
    /\ response' = [kind |-> "health", status |-> 200, ok |-> TRUE]
    /\ pc' = "done"
    /\ UNCHANGED <<upstream, fmtVars>>

Init ==
    /\ upstream \in Infos
    /\ pc = "idle"
    /\ req = NoReq
    /\ url = <<>>
    /\ info = <<>>
    /\ entry = <<>>
    /\ filename = <<>>
    /\ response = NoResponse
    /\ conn = "none"
    /\ status = 0
    /\ total = 0
    /\ relayed = 0
    /\ extractCalls = 0
    /\ getCalls = 0
    /\ fmtIn = <<>>
    /\ fmtOut = <<"?">>

Next ==
    \/ InfoRequest
    \/ InfoExtract
    \/ DownloadRequest
    \/ FollowLink
    \/ DlExtract
    \/ DlGet
    \/ StreamChunk
    \/ StreamEnd
    \/ StreamError
    \/ ClientDisconnect
    \/ Health

Spec == Init /\ [][Next]_vars

\* ------------------------------------- _format_duration on its own inputs
InitFmt ==
    /\ upstream = NoneInfo
    /\ pc = "idle"
    /\ req = NoReq
    /\ url = <<>>
    /\ info = <<>>
    /\ entry = <<>>
    /\ filename = <<>>
    /\ response = NoResponse
    /\ conn = "none"
    /\ status = 0
    /\ total = 0
    /\ relayed = 0
    /\ extractCalls = 0
    /\ getCalls = 0
    /\ fmtIn \in DurationInputs
    /\ fmtOut = <<"?">>

Format ==
    /\ fmtOut = <<"?">>
    /\ fmtOut' = _format_duration(fmtIn)
    /\ UNCHANGED <<upstream, pc, req, url, info, entry, filename, response, conn,
                   status, total, relayed, extractCalls, getCalls, fmtIn>>

NextFmt == Format

SpecFmt == InitFmt /\ [][NextFmt]_vars

\* ----------------------------------------------------------- properties
IsDigit(c) == \E k \in 0..9 : Digit(k) = c
AllDigits(s) == \A i \in 1..Len(s) : IsDigit(s[i])
Spaces(s) == \A i \in 1..Len(s) : s[i] = " "

\* t is raw without its leading and trailing whitespace
IsTrimOf(t, raw) ==
    /\ t = <<>> \/ (t[1] # " " /\ t[Len(t)] # " ")
    /\ \E i \in 0..Len(raw) :
         /\ i + Len(t) <= Len(raw)
         /\ Spaces(SubSeq(raw, 1, i))
         /\ SubSeq(raw, i + 1, i + Len(t)) = t
         /\ Spaces(SubSeq(raw, i + Len(t) + 1, Len(raw)))

\* the number of entries the engine reports: 1 for a single item, n for a
\* collection of n entries
Reported(i) == IF i.hasEntries THEN Len(i.entries) ELSE 1

\* the engine entry an item at position k of an info response is built from
SourceEntry(i, k) == IF HasNonEmptyEntries(i) THEN i.entries[k] ELSE AsEntry(i)

ExtractionFailed ==
    \/ info = <<>>
    \/ upstream.isNone
    \/ \E k \in 1..Len(upstream.entries) : upstream.entries[k].none

\* C1: every info response has ok = false with no items, or ok = true with
\* at least one item.
C1_OkMatchesItems ==
    response.kind = "info" =>
        /\ ~response.ok => response.items = <<>>
        /\ response.ok => Len(response.items) >= 1

C1_Witness ==
    /\ response.kind = "info"
    /\ response.ok
    /\ upstream.hasEntries
    /\ upstream.entries = <<>>

\* C2 (as stated): a successful info response has as many items as the
\* engine reports entries (1 for a single item, n for a collection of n),
\* with index k at position k.
C2_LengthIsReported ==
    (response.kind = "info" /\ response.ok) =>
        /\ Len(response.items) = Reported(upstream)
        /\ \A k \in 1..Len(response.items) : response.items[k].index = k - 1

\* C2 (amended): a successful info response has n items for a collection
\* of n >= 1 entries and one item for a single item or for a collection
\* whose entries list is empty, with index k at position k.
C2_LengthAmended ==
    (response.kind = "info" /\ response.ok) =>
        /\ Len(response.items) =
             (IF upstream.hasEntries /\ Len(upstream.entries) >= 1
              THEN Len(upstream.entries) ELSE 1)
        /\ \A k \in 1..Len(response.items) : response.items[k].index = k - 1

C2_Witness ==
    /\ response.kind = "info"
    /\ response.ok
    /\ Len(upstream.entries) = 2
    /\ Len(response.items) = 2
    /\ response.items[2].index = 1

\* C3: a download request that ends after an error ends with the 400
\* failure body, never with a stream cut short.
C3_NoPartialStream ==
    (pc = "done" /\ req.endpoint = "download") =>
        \/ /\ response.kind = "failure"
           /\ response.status = 400
           /\ ~response.ok
        \/ /\ response.kind = "stream"
           /\ response.outcome \in {"complete", "client_gone"}

\* C4: when the url resolved to n entries and the index is outside
\* 0..n-1, no upstream stream is opened and the response is the 400
\* failure body.
C4_InvalidIndexFails ==
    (/\ req.endpoint = "download"
     /\ info # <<>>
     /\ ~upstream.isNone
     /\ req.index \notin 0..(Reported(upstream) - 1)) =>
        /\ getCalls = 0
        /\ conn = "none"
        /\ response.kind = "failure"
        /\ response.status = 400
        /\ ~response.ok

\* C5: no request ends with its upstream connection still open.
C5_ConnectionClosedAtExit == pc = "done" => conn # "open"

\* C6: when the extraction engine fails, info answers 200 with ok = false,
\* the fixed message, no items and the trimmed request url.
C6_ExtractionFailure ==
    (response.kind = "info" /\ ExtractionFailed) =>
        /\ response.status = 200
        /\ ~response.ok
        /\ response.message = <<"Invalid or unsupported URL">>
        /\ response.items = <<>>
        /\ IsTrimOf(response.input_url, req.url)

C6_Witness ==
    /\ response.kind = "info"
    /\ info = <<>>
    /\ req.url = <<" ", "a">>
    /\ response.input_url = <<"a">>

\* C7: an upstream status that is not a success ends the download with the
\* 400 failure body and nothing relayed; chunks are relayed only after a
\* successful upstream status.
C7_NonSuccessIsFailure ==
    /\ (req.endpoint = "download" /\ status # 0 /\ status \notin 200..299) =>
          /\ pc = "done"
          /\ response.kind = "failure"
          /\ response.status = 400
          /\ ~response.ok
          /\ response.message # ""
          /\ relayed = 0
    /\ (relayed > 0 \/ response.kind = "stream") => status \in 200..299

C7_Witness ==
    /\ status = 404
    /\ response.kind = "failure"
    /\ conn = "open"

\* C8: one request calls the extraction engine at most once and issues the
\* upstream GET at most once; once either failed the request is over, with
\* its failure response and no further call.
C8_NoRetries ==
    /\ extractCalls <= 1
    /\ getCalls <= 1
    /\ (response.kind = "failure" \/ (response.kind = "info" /\ ~response.ok)) => pc = "done"
    /\ (response.kind = "failure" /\ response.error.type = "DownloadError") => getCalls = 0
    /\ (req.endpoint = "info" /\ pc = "done" /\ info = <<>>) =>
          (response.kind = "info" /\ ~response.ok /\ extractCalls = 1)
    /\ (req.endpoint = "download" /\ pc = "done" /\ info = <<>>) =>
          (response.kind = "failure" /\ extractCalls = 1)

C8_Witness ==
    /\ response.kind = "failure"
    /\ response.error.type = "RequestException"
    /\ extractCalls = 1
    /\ getCalls = 1

\* C9: _format_duration gives "" for an absent duration and, for s >= 0,
\* the decimal of s div 60, a colon and s mod 60 on exactly two digits.
C9_FormatDuration ==
    fmtOut # <<"?">> =>
        /\ fmtIn = <<>> => fmtOut = <<>>
        /\ (fmtIn # <<>> /\ fmtIn[1] >= 0) =>
              LET n == Len(fmtOut)
                  mins == SubSeq(fmtOut, 1, n - 3)
                  secs == SubSeq(fmtOut, n - 1, n)
              IN /\ n >= 4
                 /\ fmtOut[n - 2] = ":"
                 /\ AllDigits(mins)
                 /\ AllDigits(secs)
                 /\ Len(mins) > 1 => mins[1] # "0"
                 /\ ParseNat(mins) = fmtIn[1] \div 60
                 /\ ParseNat(secs) = fmtIn[1] % 60
                 /\ ParseNat(secs) \in 0..59
        /\ fmtIn = <<0>> => fmtOut = <<"0", ":", "0", "0">>
        /\ fmtIn = <<65>> => fmtOut = <<"1", ":", "0", "5">>
        /\ fmtIn = <<3661>> => fmtOut = <<"6", "1", ":", "0", "1">>

C9_Witness ==
    /\ fmtIn = <<3661>>
    /\ fmtOut = <<"6", "1", ":", "0", "1">>

\* C10: a download that follows the link of item k of an info response,
\* with the engine reporting the same result, selects the engine entry
\* that item was built from.
C10_LinkSelectsSourceEntry ==
    (req.endpoint = "download" /\ req.via # <<>> /\ info # <<>>) =>
        /\ entry = <<SourceEntry(upstream, req.via[1])>>
        /\ response.kind = "failure" => response.error.type # "IndexError"

====
